---- MODULE Spec2Model ----
(***************************************************************************)
(* SplitSync: the debt-settlement engine of src/app.py.                    *)
(*                                                                         *)
(* calculate_debts (balance loop, debtor/creditor partition, two-pointer   *)
(* sweep) and the settlement loop of the Settle Expenses page are modelled *)
(* statement by statement.                                                 *)
(*                                                                         *)
(* Money.  The program computes in binary floating point.  The model       *)
(* computes in exact arithmetic: an amount is an integer number of units,  *)
(* one cent (0.01) being Scale units, where Scale is the least common      *)
(* multiple of every possible participant count, so that the division      *)
(* amount / len(involved) is exact.  Floating-point rounding is outside    *)
(* the model.                                                              *)
(***************************************************************************)
EXTENDS Integers, Sequences, FiniteSets, TLC

\* ---------------------------------------------------------------- bounds
MaxMembers == 3

MaxExpenses == 2

MaxAmount == 3

MaxInvolved == 2

MaxDebts == 2

MaxSettlements == 2

MaxParties == 2

MaxHalfCents == 4

MaxLedger == 2

MaxPayments == 1

MaxFormAmounts == 1

MaxGroup == 2

MaxGroupPayments == 2

MaxSessions == 2

MaxSessionLedger == 2

MaxUsers == 3

\* ------------------------------------------------------------ arithmetic
Abs(x) == IF x < 0 THEN -x ELSE x

Min(a, b) == IF a <= b THEN a ELSE b

Max(a, b) == IF a >= b THEN a ELSE b

RECURSIVE GCD(_, _)
GCD(a, b) == IF b = 0 THEN a ELSE GCD(b, a % b)

RECURSIVE LcmUpTo(_)
LcmUpTo(n) == IF n <= 1 THEN 1 ELSE (n * LcmUpTo(n - 1)) \div GCD(n, LcmUpTo(n - 1))

\* units per cent: every len(involved) the model can produce divides it
Scale == 2 * LcmUpTo(Max(MaxMembers, MaxInvolved))

\* the tolerance 0.01 of the partition, the sweep and the final filter
Cent == Scale

\* ----------------------------------------------------------------- names
NameOrder == <<"A", "B", "C", "D", "E", "F">>

Names == {NameOrder[n] : n \in 1..MaxMembers}

\* a member list: distinct names (members are appended only when absent)
MemberLists == {SubSeq(NameOrder, 1, n) : n \in 0..MaxMembers}

RECURSIVE SeqsUpTo(_, _)
SeqsUpTo(S, n) ==
    IF n = 0 THEN {<<>>}
    ELSE LET shorter == SeqsUpTo(S, n - 1)
         IN  shorter \cup {Append(q, x) : q \in shorter, x \in S}

\* an expense record; hasInvolved = FALSE is a record without the key
Expenses ==
    [payer : Names, amount : {a * Scale : a \in 0..MaxAmount},
     hasInvolved : {TRUE}, involved : SeqsUpTo(Names, MaxInvolved),
     settled : BOOLEAN]
    \cup
    [payer : Names, amount : {a * Scale : a \in 0..MaxAmount},
     hasInvolved : {FALSE}, involved : {<<>>}, settled : BOOLEAN]

VARIABLES members, expenses, pc, k, balances, debtors, creditors, i, j,
          transactions, computed, settlements, debts, s, hasSettlements,
          users, current_user, reg_step, reg_data, stored, session_data

calcVars == <<members, expenses, k, balances, debtors, creditors, i, j,
              transactions>>

recVars == <<computed, settlements, debts, s>>

vars == <<members, expenses, pc, k, balances, debtors, creditors, i, j,
          transactions, computed, settlements, debts, s, hasSettlements,
          users, current_user, reg_step, reg_data, stored, session_data>>

accountVars == <<users, current_user, reg_step, reg_data>>

storeVars == <<stored, session_data>>

\* st.session_state.current_user = None
NoUser == "-"

\* st.session_state.reg_data = {}
NoRegistration == [username |-> "-", email |-> "-"]

\* the accounts of a session that has not registered or logged in anyone;
\* the specifications that do not deal with accounts hold them there
AccountsIdle ==
    /\ users = <<>>
    /\ current_user = NoUser
    /\ reg_step = 1
    /\ reg_data = NoRegistration

\* the browser sessions
Sessions == 1..MaxSessions

\* the stored data of one event without expenses and settlements
EmptyLedger == [expenses |-> <<>>, settlements |-> <<>>]

\* a session before `if 'data' not in st.session_state` has run
NotLoaded == [loaded |-> FALSE, expenses |-> <<>>, settlements |-> <<>>]

\* the store before any session has started; the specifications that do
\* not deal with stored data hold it there
StoreIdle ==
    /\ stored = EmptyLedger
    /\ session_data = [n \in Sessions |-> NotLoaded]

\* ------------------------------------------------------- calculate_debts
\* balances = {m: 0.0 for m in members}
ZeroBalances(ms) == [m \in {ms[n] : n \in 1..Len(ms)} |-> 0]

\* variant: exp.get('involved', []), no defaulting to the member list
InvolvedNoDefault(exp, ms) == exp.involved

\* exp.get('involved', members)
Involved(exp, ms) == IF exp.hasInvolved THEN exp.involved ELSE ms

\* for person in involved: if person in balances: balances[person] -= split
RECURSIVE Debit(_, _, _)
Debit(bal, involved, split) ==
    IF involved = <<>> THEN bal
    ELSE LET person == Head(involved)
             next == IF person \in DOMAIN bal
                     THEN [bal EXCEPT ![person] = @ - split]
                     ELSE bal
         IN  Debit(next, Tail(involved), split)

\* variant: balances[payer] = balances.get(payer, 0) + amount
CreditAnyPayer(bal, payer, amount) ==
    IF payer \in DOMAIN bal THEN [bal EXCEPT ![payer] = @ + amount]
    ELSE [p \in DOMAIN bal \cup {payer} |->
             IF p = payer THEN amount ELSE bal[p]]

\* variant: balances[payer] = amount, the credit replaces the balance
CreditAssign(bal, payer, amount) ==
    IF payer \in DOMAIN bal THEN [bal EXCEPT ![payer] = amount] ELSE bal

\* if payer in balances: balances[payer] += amount
Credit(bal, payer, amount) ==
    IF payer \in DOMAIN bal THEN [bal EXCEPT ![payer] = @ + amount] ELSE bal

\* variant: the payer is credited the share instead of the amount
ExpenseStepCreditShare(bal, exp, ms) ==
    IF exp.settled THEN bal
    ELSE LET involved == Involved(exp, ms)
         IN  IF Len(involved) = 0 THEN bal
             ELSE LET split_amount == exp.amount \div Len(involved)
                  IN  Debit(Credit(bal, exp.payer, split_amount),
                            involved, split_amount)

\* variant: the settled flag is not looked at
ExpenseStepIgnoreSettled(bal, exp, ms) ==
    LET involved == Involved(exp, ms)
    IN  IF Len(involved) = 0 THEN bal
        ELSE LET split_amount == exp.amount \div Len(involved)
             IN  Debit(Credit(bal, exp.payer, exp.amount),
                       involved, split_amount)

\* variant: the payer is credited before the empty-participants test
ExpenseStepCreditFirst(bal, exp, ms) ==
    IF exp.settled THEN bal
    ELSE LET involved == Involved(exp, ms)
             credited == Credit(bal, exp.payer, exp.amount)
         IN  IF Len(involved) = 0 THEN credited
             ELSE Debit(credited, involved, exp.amount \div Len(involved))

\* one iteration of `for exp in expenses`
ExpenseStep(bal, exp, ms) ==
    IF exp.settled THEN bal
    ELSE LET involved == Involved(exp, ms)
         IN  IF Len(involved) = 0 THEN bal
             ELSE LET split_amount == exp.amount \div Len(involved)
                  IN  Debit(Credit(bal, exp.payer, exp.amount),
                            involved, split_amount)

\* stable insertion of an entry into a list sorted by sgn * amount
RECURSIVE InsertByKey(_, _, _)
InsertByKey(sorted, x, sgn) ==
    IF sorted = <<>> THEN <<x>>
    ELSE IF sgn * x[2] < sgn * Head(sorted)[2]
         THEN <<x>> \o sorted
         ELSE <<Head(sorted)>> \o InsertByKey(Tail(sorted), x, sgn)

\* list.sort(key=lambda x: x[1]) (sgn = 1) and with reverse=True (sgn = -1);
\* both keep entries of equal amount in their original order
RECURSIVE SortByKey(_, _)
SortByKey(list, sgn) ==
    IF list = <<>> THEN <<>>
    ELSE InsertByKey(SortByKey(SubSeq(list, 1, Len(list) - 1), sgn),
                     list[Len(list)], sgn)

\* variant: the tests are amount <= 0 and amount >= 0
PartitionNoTolerance(bal, ms, side) ==
    LET Picked(n) == side * bal[ms[n]] >= 0
        F[n \in 0..Len(ms)] ==
            IF n = 0 THEN <<>>
            ELSE IF Picked(n) THEN Append(F[n - 1], <<ms[n], bal[ms[n]]>>)
                 ELSE F[n - 1]
    IN  F[Len(ms)]

\* the entries [person, amount] of balances.items() that satisfy a test,
\* in dictionary (member-list) order; side = -1: amount < -0.01,
\* side = 1: amount > 0.01
RECURSIVE Partition(_, _, _)
Partition(bal, ms, side) ==
    IF ms = <<>> THEN <<>>
    ELSE LET rest == Partition(bal, Tail(ms), side)
             amount == bal[Head(ms)]
         IN  IF side * amount > Cent
             THEN <<(<<Head(ms), amount>>)>> \o rest
             ELSE rest

\* variant: the debtors stay in member-list order
DebtorsUnsorted(bal, ms) == Partition(bal, ms, -1)

\* debtors.sort(key=lambda x: x[1])
Debtors(bal, ms) == SortByKey(Partition(bal, ms, -1), 1)

Creditors(bal, ms) == SortByKey(Partition(bal, ms, 1), -1)

\* while i < len(debtors) and j < len(creditors)
SweepCond(st) == st.i < Len(st.debtors) /\ st.j < Len(st.creditors)

\* variant: both indexes advance after every match
SweepStepAdvanceBoth(st) ==
    LET debt == st.debtors[st.i + 1][2]
        credit == st.creditors[st.j + 1][2]
        amount == Min(Abs(debt), credit)
    IN  [debtors |-> [st.debtors EXCEPT ![st.i + 1][2] = @ + amount],
         creditors |-> [st.creditors EXCEPT ![st.j + 1][2] = @ - amount],
         i |-> st.i + 1,
         j |-> st.j + 1,
         transactions |->
             Append(st.transactions,
                    [debtor |-> st.debtors[st.i + 1][1],
                     creditor |-> st.creditors[st.j + 1][1],
                     amount |-> amount])]

\* variant: the creditor index is never advanced
SweepStepKeepCreditor(st) ==
    LET debt == st.debtors[st.i + 1][2]
        credit == st.creditors[st.j + 1][2]
        amount == Min(Abs(debt), credit)
        ds == [st.debtors EXCEPT ![st.i + 1][2] = @ + amount]
    IN  [debtors |-> ds,
         creditors |-> [st.creditors EXCEPT ![st.j + 1][2] = @ - amount],
         i |-> IF Abs(ds[st.i + 1][2]) < Cent THEN st.i + 1 ELSE st.i,
         j |-> st.j,
         transactions |->
             Append(st.transactions,
                    [debtor |-> st.debtors[st.i + 1][1],
                     creditor |-> st.creditors[st.j + 1][1],
                     amount |-> amount])]

\* variant: the larger of the debt and the credit is transferred
SweepStepTransferLarger(st) ==
    LET debt == st.debtors[st.i + 1][2]
        credit == st.creditors[st.j + 1][2]
        amount == Max(Abs(debt), credit)
        ds == [st.debtors EXCEPT ![st.i + 1][2] = @ + amount]
        cs == [st.creditors EXCEPT ![st.j + 1][2] = @ - amount]
    IN  [debtors |-> ds,
         creditors |-> cs,
         i |-> IF Abs(ds[st.i + 1][2]) < Cent THEN st.i + 1 ELSE st.i,
         j |-> IF cs[st.j + 1][2] < Cent THEN st.j + 1 ELSE st.j,
         transactions |->
             Append(st.transactions,
                    [debtor |-> st.debtors[st.i + 1][1],
                     creditor |-> st.creditors[st.j + 1][1],
                     amount |-> amount])]

\* one iteration of the two-pointer sweep (i, j are 0-based as in the code)
SweepStep(st) ==
    LET debtor == st.debtors[st.i + 1][1]
        debt == st.debtors[st.i + 1][2]
        creditor == st.creditors[st.j + 1][1]
        credit == st.creditors[st.j + 1][2]
        amount == Min(Abs(debt), credit)
        ds == [st.debtors EXCEPT ![st.i + 1][2] = @ + amount]
        cs == [st.creditors EXCEPT ![st.j + 1][2] = @ - amount]
    IN  [debtors |-> ds,
         creditors |-> cs,
         i |-> IF Abs(ds[st.i + 1][2]) < Cent THEN st.i + 1 ELSE st.i,
         j |-> IF cs[st.j + 1][2] < Cent THEN st.j + 1 ELSE st.j,
         transactions |->
             Append(st.transactions,
                    [debtor |-> debtor, creditor |-> creditor,
                     amount |-> amount])]

\* the balance loop as a function of its inputs
RECURSIVE CalcBalances(_, _, _)
CalcBalances(bal, exps, ms) ==
    IF exps = <<>> THEN bal
    ELSE CalcBalances(ExpenseStep(bal, Head(exps), ms), Tail(exps), ms)

RECURSIVE RunSweep(_)
RunSweep(st) == IF SweepCond(st) THEN RunSweep(SweepStep(st)) ELSE st

\* the simplification (partition, sorts, sweep) as a function of balances
Simplify(bal, ms) ==
    RunSweep([debtors |-> Debtors(bal, ms), creditors |-> Creditors(bal, ms),
              i |-> 0, j |-> 0, transactions |-> <<>>]).transactions

\* calculate_debts(expenses, members)
CalculateDebts(exps, ms) == Simplify(CalcBalances(ZeroBalances(ms), exps, ms), ms)

\* --------------------------------------------- calculate_debts, stepwise
Init ==
    /\ members \in MemberLists
    /\ expenses \in SeqsUpTo(Expenses, MaxExpenses)
    /\ pc = "balances"
    /\ k = 0
    /\ balances = ZeroBalances(members)
    /\ debtors = <<>>
    /\ creditors = <<>>
    /\ i = 0
    /\ j = 0
    /\ transactions = <<>>
    /\ computed = <<>>
    /\ settlements = <<>>
    /\ debts = <<>>
    /\ s = 0
    /\ hasSettlements = FALSE
    /\ AccountsIdle
    /\ StoreIdle

\* for exp in expenses: ...
ProcessExpense ==
    /\ pc = "balances"
    /\ k < Len(expenses)
    /\ balances' = ExpenseStep(balances, expenses[k + 1], members)
    /\ k' = k + 1
    /\ UNCHANGED <<members, expenses, pc, debtors, creditors, i, j, transactions>>
    /\ UNCHANGED <<recVars, hasSettlements, accountVars, storeVars>>

\* debtors / creditors are collected and sorted; transactions = [], i = j = 0
PartitionAndSort ==
    /\ pc = "balances"
    /\ k = Len(expenses)
    /\ debtors' = Debtors(balances, members)
    /\ creditors' = Creditors(balances, members)
    /\ i' = 0
    /\ j' = 0
    /\ transactions' = <<>>
    /\ pc' = "sweep"
    /\ UNCHANGED <<members, expenses, k, balances>>
    /\ UNCHANGED <<recVars, hasSettlements, accountVars, storeVars>>

SweepState ==
    [debtors |-> debtors, creditors |-> creditors, i |-> i, j |-> j,
     transactions |-> transactions]

\* one iteration of the while loop
SweepIteration ==
    /\ pc = "sweep"
    /\ SweepCond(SweepState)
    /\ LET st == SweepStep(SweepState)
       IN  /\ debtors' = st.debtors
           /\ creditors' = st.creditors
           /\ i' = st.i
           /\ j' = st.j
           /\ transactions' = st.transactions
    /\ UNCHANGED <<members, expenses, pc, k, balances>>
    /\ UNCHANGED <<recVars, hasSettlements, accountVars, storeVars>>

\* return transactions
Return ==
    /\ pc = "sweep"
    /\ ~SweepCond(SweepState)
    /\ pc' = "done"
    /\ UNCHANGED <<calcVars, recVars, hasSettlements, accountVars, storeVars>>

Next == ProcessExpense \/ PartitionAndSort \/ SweepIteration \/ Return

Spec == Init /\ [][Next]_vars

\* calculate_debts is a straight run of the interpreter: a step that can be
\* taken is taken
SpecLive == Spec /\ WF_vars(Next)

\* ------------------------------------- Settle Expenses: apply settlements
\* variant: a payment is set against the debt of the recipient
MatchesReversed(debt, settlement) ==
    debt.debtor = settlement.to_user /\ debt.creditor = settlement.from_user

\* variant: a payment in the opposite direction is netted as well
MatchesEitherWay(debt, settlement) ==
    \/ debt.debtor = settlement.from_user /\ debt.creditor = settlement.to_user
    \/ debt.debtor = settlement.to_user /\ debt.creditor = settlement.from_user

\* debt['debtor'] == settlement['from_user'] and
\* debt['creditor'] == settlement['to_user']
Matches(debt, settlement) ==
    debt.debtor = settlement.from_user /\ debt.creditor = settlement.to_user

\* the index of the debt at which `for debt in debts` breaks, 0 when the
\* loop runs to its end
FirstMatch(list, settlement) ==
    IF \E n \in 1..Len(list) : Matches(list[n], settlement)
    THEN CHOOSE n \in 1..Len(list) :
             /\ Matches(list[n], settlement)
             /\ \A q \in 1..(n - 1) : ~Matches(list[q], settlement)
    ELSE 0

\* list.remove(x): the first element equal to x is taken out
RemoveFirst(list, x) ==
    LET n == CHOOSE q \in 1..Len(list) :
                 list[q] = x /\ \A r \in 1..(q - 1) : list[r] # x
    IN  SubSeq(list, 1, n - 1) \o SubSeq(list, n + 1, Len(list))

\* variant: an over-payment turns the debt round
ApplySettlementReverse(list, settlement) ==
    LET n == FirstMatch(list, settlement)
    IN  IF n = 0 THEN list
        ELSE LET left == list[n].amount - settlement.amount
             IN  IF left < 0
                 THEN [list EXCEPT ![n] = [debtor |-> list[n].creditor,
                                           creditor |-> list[n].debtor,
                                           amount |-> -left]]
                 ELSE [list EXCEPT ![n].amount = left]

\* variant: a payment that matches no debt is booked as a debt back
ApplySettlementBooksUnmatched(list, settlement) ==
    LET n == FirstMatch(list, settlement)
    IN  IF n = 0
        THEN Append(list, [debtor |-> settlement.to_user,
                           creditor |-> settlement.from_user,
                           amount |-> settlement.amount])
        ELSE LET reduced == [list EXCEPT ![n].amount = @ - settlement.amount]
             IN  IF reduced[n].amount <= 0
                 THEN RemoveFirst(reduced, reduced[n])
                 ELSE reduced

\* one iteration of `for settlement in settlements`
ApplySettlement(list, settlement) ==
    LET n == FirstMatch(list, settlement)
    IN  IF n = 0 THEN list
        ELSE LET reduced == [list EXCEPT ![n].amount = @ - settlement.amount]
             IN  IF reduced[n].amount <= 0
                 THEN RemoveFirst(reduced, reduced[n])
                 ELSE reduced

\* variant: the filter keeps every debt above zero
OutstandingAboveZero(list) == SelectSeq(list, LAMBDA d : d.amount > 0)

\* debts = [d for d in debts if d['amount'] > 0.01]
Outstanding(list) == SelectSeq(list, LAMBDA d : d.amount > Cent)

RECURSIVE ApplyAll(_, _)
ApplyAll(list, setts) ==
    IF setts = <<>> THEN list
    ELSE ApplyAll(ApplySettlement(list, Head(setts)), Tail(setts))

\* the settlement loop and the final filter as a function of their inputs
Reconcile(list, setts) == Outstanding(ApplyAll(list, setts))

\* the parties and the amounts of the debts and settlements handed to the
\* settlement loop
Parties == {NameOrder[n] : n \in 1..MaxParties}

HalfCents == {h * (Cent \div 2) : h \in 0..MaxHalfCents}

DebtRecords == [debtor : Parties, creditor : Parties, amount : HalfCents]

SettlementRecords == [from_user : Parties, to_user : Parties, amount : HalfCents]

InitRec ==
    /\ computed \in SeqsUpTo(DebtRecords, MaxDebts)
    /\ settlements \in SeqsUpTo(SettlementRecords, MaxSettlements)
    /\ debts = computed
    /\ s = 0
    /\ hasSettlements = FALSE
    /\ AccountsIdle
    /\ StoreIdle
    /\ pc = "apply"
    /\ members = <<>>
    /\ expenses = <<>>
    /\ k = 0
    /\ balances = <<>>
    /\ debtors = <<>>
    /\ creditors = <<>>
    /\ i = 0
    /\ j = 0
    /\ transactions = <<>>

\* for settlement in current_event.get('settlements', []): ...
ApplyNext ==
    /\ pc = "apply"
    /\ s < Len(settlements)
    /\ debts' = ApplySettlement(debts, settlements[s + 1])
    /\ s' = s + 1
    /\ UNCHANGED <<calcVars, pc, computed, settlements, hasSettlements>>
    /\ UNCHANGED <<accountVars, storeVars>>

\* the final filter; the list is then displayed
FilterOutstanding ==
    /\ pc = "apply"
    /\ s = Len(settlements)
    /\ debts' = Outstanding(debts)
    /\ pc' = "shown"
    /\ UNCHANGED <<calcVars, computed, settlements, s, hasSettlements>>
    /\ UNCHANGED <<accountVars, storeVars>>

NextRec == ApplyNext \/ FilterOutstanding

SpecRec == InitRec /\ [][NextRec]_vars

\* --------------------------------------------------- the event's pages
\* st.radio("Navigation", [...])
Menus ==
    {"Dashboard", "Add Expense", "Edit Expenses", "Settle Expenses",
     "Manage Event"}

\* Dashboard: debts = calculate_debts(...) unless there is no expense
DashboardPage(ev) ==
    [members |-> ev.members,
     expenses |-> ev.expenses,
     settlements |-> ev.settlements,
     hasSettlements |-> ev.hasSettlements,
     debts |-> IF ev.expenses = <<>> THEN <<>>
               ELSE CalculateDebts(ev.expenses, ev.members)]

\* variant: once nothing is outstanding the settlements are cleared
SettlePageClears(ev) ==
    LET left == Reconcile(CalculateDebts(ev.expenses, ev.members),
                          ev.settlements)
    IN  [members |-> ev.members,
         expenses |-> ev.expenses,
         settlements |-> IF left = <<>> THEN <<>> ELSE ev.settlements,
         hasSettlements |-> TRUE,
         debts |-> left]

\* variant: once nothing is outstanding the expenses are marked settled
SettlePageMarksSettled(ev) ==
    LET left == Reconcile(CalculateDebts(ev.expenses, ev.members),
                          ev.settlements)
    IN  [members |-> ev.members,
         expenses |-> IF left = <<>>
                      THEN [n \in 1..Len(ev.expenses) |->
                               [ev.expenses[n] EXCEPT !.settled = TRUE]]
                      ELSE ev.expenses,
         settlements |-> ev.settlements,
         hasSettlements |-> TRUE,
         debts |-> left]

\* Settle Expenses: the settlements key is created when missing, the debts
\* are calculated, the settlements applied and the list filtered
SettlePage(ev) ==
    [members |-> ev.members,
     expenses |-> ev.expenses,
     settlements |-> ev.settlements,
     hasSettlements |-> TRUE,
     debts |-> Reconcile(CalculateDebts(ev.expenses, ev.members),
                         ev.settlements)]

\* the other pages calculate no debts
FormPage(ev) ==
    [members |-> ev.members,
     expenses |-> ev.expenses,
     settlements |-> ev.settlements,
     hasSettlements |-> ev.hasSettlements,
     debts |-> <<>>]

\* one run of the script for the selected menu entry
Render(menu, ev) ==
    IF menu = "Dashboard" THEN DashboardPage(ev)
    ELSE IF menu = "Settle Expenses" THEN SettlePage(ev)
    ELSE FormPage(ev)

\* the event as the session holds it
Event ==
    [members |-> members, expenses |-> expenses, settlements |-> settlements,
     hasSettlements |-> hasSettlements]

\* the script runs for menu on event ev and leaves its results
Rerun(menu, ev) ==
    LET r == Render(menu, ev)
    IN  /\ pc' = menu
        /\ members' = r.members
        /\ expenses' = r.expenses
        /\ settlements' = r.settlements
        /\ hasSettlements' = r.hasSettlements
        /\ debts' = r.debts
        /\ UNCHANGED <<k, balances, debtors, creditors, i, j, transactions,
                       computed, s>>
        /\ UNCHANGED <<accountVars, storeVars>>

\* st.multiselect("Split Among", members): the non-empty selections, in
\* member order
Selections(ms) ==
    LET Pick(S) ==
            LET F[n \in 0..Len(ms)] ==
                    IF n = 0 THEN <<>>
                    ELSE IF n \in S THEN Append(F[n - 1], ms[n]) ELSE F[n - 1]
            IN  F[Len(ms)]
    IN  {Pick(S) : S \in (SUBSET (1..Len(ms))) \ {{}}}

\* st.number_input(min_value=0.01): the amounts the forms are given
FormAmounts ==
    {a * Scale : a \in (MaxAmount - MaxFormAmounts + 1)..MaxAmount}

\* new_expense = {"id": len(current_event['expenses']) + 1, ...}
NewExpense(exps, payer, amount, involved) ==
    [id |-> Len(exps) + 1, payer |-> payer, amount |-> amount,
     hasInvolved |-> TRUE, involved |-> involved, settled |-> FALSE]

\* new_settlement = {"id": len(settlements) + 1, "from_user": payer, ...}
NewSettlement(setts, payer, recipient, amount) ==
    [id |-> Len(setts) + 1, from_user |-> payer, to_user |-> recipient,
     amount |-> amount]

\* a new event: the creator is its only member until members join
InitApp ==
    /\ members \in MemberLists \ {<<>>}
    /\ expenses = <<>>
    /\ settlements = <<>>
    /\ hasSettlements = FALSE
    /\ AccountsIdle
    /\ StoreIdle
    /\ pc = "Dashboard"
    /\ debts = <<>>
    /\ computed = <<>>
    /\ s = 0
    /\ k = 0
    /\ balances = <<>>
    /\ debtors = <<>>
    /\ creditors = <<>>
    /\ i = 0
    /\ j = 0
    /\ transactions = <<>>

\* the user selects a menu entry
Navigate == \E menu \in Menus : Rerun(menu, Event)

\* Add Expense: the form is submitted with a title and participants
AddExpense ==
    /\ pc = "Add Expense"
    /\ Len(expenses) < MaxLedger
    /\ \E n \in 1..Len(members), amount \in FormAmounts,
          involved \in Selections(members) :
           Rerun(pc, [Event EXCEPT !.expenses =
                        Append(expenses,
                               NewExpense(expenses, members[n], amount,
                                          involved))])

\* Edit Expenses: the selected expense is updated in place; its id and its
\* settled flag stay
EditExpense ==
    /\ pc = "Edit Expenses"
    /\ \E idx \in 1..Len(expenses), n \in 1..Len(members),
          amount \in FormAmounts, involved \in Selections(members) :
           Rerun(pc, [Event EXCEPT !.expenses =
                        [expenses EXCEPT ![idx] =
                            [@ EXCEPT !.payer = members[n],
                                      !.amount = amount,
                                      !.hasInvolved = TRUE,
                                      !.involved = involved]]])

\* Edit Expenses: current_event['expenses'].pop(selected_idx)
DeleteExpense ==
    /\ pc = "Edit Expenses"
    /\ \E idx \in 1..Len(expenses) :
           Rerun(pc, [Event EXCEPT !.expenses =
                        SubSeq(expenses, 1, idx - 1)
                        \o SubSeq(expenses, idx + 1, Len(expenses))])

\* the amounts given to the payment form: one cent, or the default, the
\* amount of the first debt shown for the payer
PaymentAmounts(payer) ==
    LET own == {q \in 1..Len(debts) : debts[q].debtor = payer}
    IN  {Cent} \cup
        {debts[q].amount : q \in {n \in own : \A m \in own : n <= m}}

\* Settle Expenses: a payment from payer to another member is recorded;
\* limit bounds the number of settlements of the event
RecordPaymentUpTo(limit) ==
    /\ pc = "Settle Expenses"
    /\ Len(settlements) < limit
    /\ \E n, q \in 1..Len(members) :
           /\ n # q
           /\ \E amount \in PaymentAmounts(members[n]) :
                  Rerun(pc, [Event EXCEPT !.settlements =
                               Append(settlements,
                                      NewSettlement(settlements, members[n],
                                                    members[q], amount))])

RecordPayment == RecordPaymentUpTo(MaxPayments)

NextApp ==
    Navigate \/ AddExpense \/ EditExpense \/ DeleteExpense \/ RecordPayment

SpecApp == InitApp /\ [][NextApp]_vars

\* ------------------------------------------- the event and its members
\* st.session_state.current_user: the creator and admin of the event
CurrentUser == NameOrder[1]

\* the registered users
Registered == {NameOrder[n] : n \in 1..MaxGroup}

\* Create Event: members = [current_user], no expenses, no 'settlements' key
InitGroup ==
    /\ members = <<CurrentUser>>
    /\ expenses = <<>>
    /\ settlements = <<>>
    /\ hasSettlements = FALSE
    /\ AccountsIdle
    /\ StoreIdle
    /\ pc = "Dashboard"
    /\ debts = <<>>
    /\ computed = <<>>
    /\ s = 0
    /\ k = 0
    /\ balances = <<>>
    /\ debtors = <<>>
    /\ creditors = <<>>
    /\ i = 0
    /\ j = 0
    /\ transactions = <<>>

\* Manage Event: a registered user who is not yet a member is appended
AddMember ==
    /\ pc = "Manage Event"
    /\ \E name \in Registered \ {members[n] : n \in 1..Len(members)} :
           Rerun(pc, [Event EXCEPT !.members = Append(members, name)])

\* Manage Event: the admin removes a member other than themself; the
\* expenses and settlements of the event are left as they are
RemoveMember ==
    /\ pc = "Manage Event"
    /\ \E n \in 1..Len(members) :
           /\ members[n] # CurrentUser
           /\ Rerun(pc, [Event EXCEPT !.members =
                           SubSeq(members, 1, n - 1)
                           \o SubSeq(members, n + 1, Len(members))])

RecordGroupPayment == RecordPaymentUpTo(MaxGroupPayments)

NextGroup ==
    \/ Navigate
    \/ AddExpense
    \/ EditExpense
    \/ DeleteExpense
    \/ RecordGroupPayment
    \/ AddMember
    \/ RemoveMember

SpecGroup == InitGroup /\ [][NextGroup]_vars

\* ------------------------------------------- sessions and the stored data
\* the specifications of the store and of the accounts do not run the
\* calculation or the pages; they hold those variables at these values
PagesIdle(ms) ==
    /\ members = ms
    /\ expenses = <<>>
    /\ settlements = <<>>
    /\ hasSettlements = FALSE
    /\ pc = "-"
    /\ debts = <<>>
    /\ computed = <<>>
    /\ s = 0
    /\ k = 0
    /\ balances = <<>>
    /\ debtors = <<>>
    /\ creditors = <<>>
    /\ i = 0
    /\ j = 0
    /\ transactions = <<>>

pageVars == <<calcVars, pc, recVars, hasSettlements>>

\* the user of session n; every session's user is a member of the event
SessionUser(n) == NameOrder[n]

\* save_data(data): json.dump of the whole data of the session replaces
\* what is stored
SaveData(d) == [expenses |-> d.expenses, settlements |-> d.settlements]

\* the number of records a session holds
Held(d) == Len(d.expenses) + Len(d.settlements)

InitStore ==
    /\ PagesIdle(SubSeq(NameOrder, 1, MaxSessions))
    /\ AccountsIdle
    /\ StoreIdle

\* if 'data' not in st.session_state: st.session_state.data = load_data()
LoadData ==
    \E n \in Sessions :
        /\ ~session_data[n].loaded
        /\ session_data' =
               [session_data EXCEPT ![n] =
                   [loaded |-> TRUE, expenses |-> stored.expenses,
                    settlements |-> stored.settlements]]
        /\ UNCHANGED <<stored, pageVars, accountVars>>

\* Add Expense in session n: the expense is appended to the session's data
\* and the session's data is saved
SessionAddExpense ==
    \E n \in Sessions, amount \in FormAmounts :
        /\ session_data[n].loaded
        /\ Held(session_data[n]) < MaxSessionLedger
        /\ LET d == [session_data[n] EXCEPT !.expenses =
                        Append(@, NewExpense(@, SessionUser(n), amount,
                                             members))]
           IN  /\ session_data' = [session_data EXCEPT ![n] = d]
               /\ stored' = SaveData(d)
        /\ UNCHANGED <<pageVars, accountVars>>

\* Record Payment in session n: the settlement is appended to the session's
\* data and the session's data is saved
SessionRecordPayment ==
    \E n \in Sessions, q \in 1..Len(members) :
        /\ session_data[n].loaded
        /\ Held(session_data[n]) < MaxSessionLedger
        /\ members[q] # SessionUser(n)
        /\ LET d == [session_data[n] EXCEPT !.settlements =
                        Append(@, NewSettlement(@, SessionUser(n),
                                                members[q], Cent))]
           IN  /\ session_data' = [session_data EXCEPT ![n] = d]
               /\ stored' = SaveData(d)
        /\ UNCHANGED <<pageVars, accountVars>>

NextStore == LoadData \/ SessionAddExpense \/ SessionRecordPayment

SpecStore == InitStore /\ [][NextStore]_vars

\* ------------------------------------------------------------- accounts
EmailOrder == <<"a@x", "b@x", "c@x", "d@x", "e@x">>

Emails == {EmailOrder[n] : n \in 1..MaxUsers}

Usernames == {users[n].username : n \in 1..Len(users)}

\* Session State Initialization with no stored users
InitUsers ==
    /\ PagesIdle(<<>>)
    /\ AccountsIdle
    /\ StoreIdle

\* Register, step 1: the username and the email are not registered yet, the
\* code is sent, the details are kept in reg_data
SubmitDetails ==
    \E name \in Names, email \in Emails :
        /\ current_user = NoUser
        /\ reg_step = 1
        /\ ~\E n \in 1..Len(users) : users[n].username = name
        /\ ~\E n \in 1..Len(users) : users[n].email = email
        /\ reg_data' = [username |-> name, email |-> email]
        /\ reg_step' = 2
        /\ UNCHANGED <<users, current_user, pageVars, storeVars>>

\* Register, step 2: the code matches and reg_data is appended to the users
VerifyAndRegister ==
    /\ current_user = NoUser
    /\ reg_step = 2
    /\ Len(users) < MaxUsers
    /\ users' = Append(users, reg_data)
    /\ reg_step' = 1
    /\ reg_data' = NoRegistration
    /\ UNCHANGED <<current_user, pageVars, storeVars>>

\* Register, step 2: the Back button
Back ==
    /\ current_user = NoUser
    /\ reg_step = 2
    /\ reg_step' = 1
    /\ UNCHANGED <<users, current_user, reg_data, pageVars, storeVars>>

\* Login with the username and the password of a user record
Login ==
    \E n \in 1..Len(users) :
        /\ current_user = NoUser
        /\ current_user' = users[n].username
        /\ UNCHANGED <<users, reg_step, reg_data, pageVars, storeVars>>

\* Logout: current_user = None; the registration state is left as it is
Logout ==
    /\ current_user # NoUser
    /\ current_user' = NoUser
    /\ UNCHANGED <<users, reg_step, reg_data, pageVars, storeVars>>

\* the index of the first user record of a name, 0 when there is none
UserIndex(name) ==
    IF \E n \in 1..Len(users) : users[n].username = name
    THEN CHOOSE n \in 1..Len(users) :
             /\ users[n].username = name
             /\ \A q \in 1..(n - 1) : users[q].username # name
    ELSE 0

\* Change Username: the new name differs from the current one and is not
\* taken; the first record of the current user is renamed
ChangeUsername ==
    \E name \in Names :
        /\ current_user # NoUser
        /\ name # current_user
        /\ name \notin Usernames
        /\ UserIndex(current_user) # 0
        /\ users' = [users EXCEPT ![UserIndex(current_user)].username = name]
        /\ current_user' = name
        /\ UNCHANGED <<reg_step, reg_data, pageVars, storeVars>>

NextUsers ==
    \/ SubmitDetails
    \/ VerifyAndRegister
    \/ Back
    \/ Login
    \/ Logout
    \/ ChangeUsername

SpecUsers == InitUsers /\ [][NextUsers]_vars

\* ------------------------------------------------- properties: helpers
MemberSet == {members[n] : n \in 1..Len(members)}

RECURSIVE SumOver(_, _)
SumOver(f, S) ==
    IF S = {} THEN 0
    ELSE LET x == CHOOSE y \in S : TRUE IN f[x] + SumOver(f, S \ {x})

Occurrences(list, x) == Cardinality({n \in 1..Len(list) : list[n] = x})

\* every payer and every listed participant is a member
AllKnown ==
    \A n \in 1..Len(expenses) :
        /\ expenses[n].payer \in MemberSet
        /\ \A q \in 1..Len(expenses[n].involved) :
               expenses[n].involved[q] \in MemberSet

\* the balances after every debt of a list has been paid:
\* the debtor's balance rises by the amount, the creditor's falls by it
RECURSIVE ApplyDebts(_, _)
ApplyDebts(bal, list) ==
    IF list = <<>> THEN bal
    ELSE LET d == Head(list)
             paid == IF d.debtor \in DOMAIN bal
                     THEN [bal EXCEPT ![d.debtor] = @ + d.amount] ELSE bal
             got == IF d.creditor \in DOMAIN paid
                    THEN [paid EXCEPT ![d.creditor] = @ - d.amount] ELSE paid
         IN  ApplyDebts(got, Tail(list))

\* the expenses whose settled flag is false, in order
Unsettled(exps) == SelectSeq(exps, LAMBDA e : ~e.settled)

\* the expense the last ProcessExpense step handled
LastExpense == expenses[k]

\* --------------------------------------------------------------- claims
\* C1: when every payer and every listed participant is a member, the net
\* balances sum to zero over all members (after each expense, hence at the
\* end of the balance loop).
C1_ZeroSum == AllKnown => SumOver(balances, DOMAIN balances) = 0

C1_Witness ==
    /\ pc = "done"
    /\ AllKnown
    /\ Len(expenses) = MaxExpenses
    /\ \E m \in MemberSet : balances[m] > Cent

\* C2: paying every emitted debt leaves every member's balance within 0.01
\* of zero.
C2_SettlementComplete ==
    pc = "done" =>
        \A m \in MemberSet : Abs(ApplyDebts(balances, transactions)[m]) <= Cent

\* C3: the sweep run again on the balances that result from paying its own
\* debts emits no debt.
C3_Idempotent ==
    pc = "done" =>
        Simplify(ApplyDebts(balances, transactions), members) = <<>>

C3_Witness ==
    /\ pc = "done"
    /\ Len(transactions) >= 2
    /\ ApplyDebts(balances, transactions) # balances

\* C4 (as stated): the number of emitted debts is at most
\* |debtors| + |creditors| - 1.
C4_CountBound ==
    pc = "done" => Len(transactions) <= Len(debtors) + Len(creditors) - 1

\* C4 (amended): the number of emitted debts is at most
\* |debtors| + |creditors| - 1 when there is a debtor or a creditor, and
\* zero when there is none (at the return and at every point of the sweep).
C4_CountBoundAmended ==
    pc \in {"sweep", "done"} =>
        Len(transactions) <= Max(0, Len(debtors) + Len(creditors) - 1)

C4_Witness ==
    /\ pc = "done"
    /\ Len(debtors) + Len(creditors) = 3
    /\ Len(transactions) = 2

\* C6: the balances and the debts are those of the expense list without
\* its settled expenses.
C6_SettledExclusion ==
    pc = "done" =>
        /\ balances = CalcBalances(ZeroBalances(members), Unsettled(expenses),
                                   members)
        /\ transactions = CalculateDebts(Unsettled(expenses), members)

C6_Witness ==
    /\ pc = "done"
    /\ transactions # <<>>
    /\ \E n \in 1..Len(expenses) :
           /\ expenses[n].settled
           /\ expenses[n].amount > 0
           /\ expenses[n].payer \in MemberSet
           /\ Len(Involved(expenses[n], members)) > 0

\* the credit and the debits that the expenses handled so far lose to
\* names outside the member list
RECURSIVE LostToUnknown(_)
LostToUnknown(n) ==
    IF n = 0 THEN 0
    ELSE LET e == expenses[n]
             involved == Involved(e, members)
             strangers == {q \in 1..Len(involved) : involved[q] \notin MemberSet}
         IN  LostToUnknown(n - 1)
             + (IF e.settled \/ Len(involved) = 0 THEN 0
                ELSE (IF e.payer \in MemberSet THEN 0 ELSE e.amount)
                     - (e.amount \div Len(involved)) * Cardinality(strangers))

\* C7: a non-member payer is not credited and a non-member participant is
\* not debited (the members' balances sum to what the members paid minus
\* what the members owe, nothing of a stranger's part is moved onto a
\* member), no balance entry exists for a non-member, and no non-member is
\* debtor or creditor of an emitted debt.
C7_UnknownMembers ==
    /\ DOMAIN balances = MemberSet
    /\ SumOver(balances, DOMAIN balances) + LostToUnknown(k) = 0
    /\ \A n \in 1..Len(transactions) :
           /\ transactions[n].debtor \in MemberSet
           /\ transactions[n].creditor \in MemberSet

C7_Witness ==
    /\ pc = "done"
    /\ transactions # <<>>
    /\ \E n \in 1..Len(expenses) :
           ~expenses[n].settled /\ expenses[n].amount > 0
           /\ expenses[n].payer \notin MemberSet
    /\ \E n \in 1..Len(expenses) :
           /\ ~expenses[n].settled /\ expenses[n].amount > 0
           /\ \E q \in 1..Len(expenses[n].involved) :
                  expenses[n].involved[q] \notin MemberSet

\* the balances after the payer of expense e is credited its amount and
\* every member is debited amount / |members|
SplitAmongAll(bal, e) ==
    [m \in MemberSet |->
        bal[m] + (IF e.payer = m THEN e.amount ELSE 0)
               - e.amount \div Len(members)]

\* the step that handles expense number k + 1
Handles == pc = "balances" /\ k < Len(expenses) /\ k' = k + 1

\* C8 (as stated): an unsettled expense whose involved list is empty or
\* absent is split equally among all members, and the payer is credited.
C8_DefaultEmptyOrAbsent ==
    [][(/\ Handles
        /\ ~expenses[k + 1].settled
        /\ expenses[k + 1].involved = <<>>
        /\ members # <<>>)
       => balances' = SplitAmongAll(balances, expenses[k + 1])]_vars

\* C8 (amended): an unsettled expense without an involved list is split
\* equally among all members, and the payer is credited; an expense whose
\* involved list is present and empty is skipped.
C8_DefaultAbsent ==
    [][(/\ Handles
        /\ ~expenses[k + 1].settled
        /\ members # <<>>)
       => /\ ~expenses[k + 1].hasInvolved
             => balances' = SplitAmongAll(balances, expenses[k + 1])
          /\ (expenses[k + 1].hasInvolved /\ expenses[k + 1].involved = <<>>)
             => balances' = balances]_vars

C8_Witness ==
    /\ pc = "balances"
    /\ k >= 1
    /\ ~LastExpense.settled
    /\ ~LastExpense.hasInvolved
    /\ LastExpense.amount > 0
    /\ Len(members) >= 2
    /\ \A m \in MemberSet : balances[m] # 0

\* C9: an unsettled expense that has no participants after defaulting
\* changes no balance (its payer is not credited), and the loop goes on to
\* the next expense.
C9_EmptySkipped ==
    [][(/\ pc = "balances"
        /\ k < Len(expenses)
        /\ ~expenses[k + 1].settled
        /\ Len(Involved(expenses[k + 1], members)) = 0)
       => (balances' = balances /\ k' = k + 1 /\ pc' = "balances")]_vars

C9_Witness ==
    /\ pc = "balances"
    /\ k >= 1
    /\ members = <<>>
    /\ ~LastExpense.settled
    /\ ~LastExpense.hasInvolved
    /\ LastExpense.amount > 0

\* C10: every emitted debt has a strictly positive amount.
C10_PositiveAmounts ==
    \A n \in 1..Len(transactions) : transactions[n].amount > 0

C10_Witness ==
    /\ pc = "done"
    /\ Len(transactions) >= 2
    /\ transactions[2].amount < transactions[1].amount

\* list is what is left of a sub-list of original, debt by debt with the
\* same debtor and creditor and an amount that is not larger
RECURSIVE Dominated(_, _)
Dominated(list, original) ==
    \/ list = <<>>
    \/ /\ original # <<>>
       /\ \/ /\ Head(list).debtor = Head(original).debtor
             /\ Head(list).creditor = Head(original).creditor
             /\ Head(list).amount <= Head(original).amount
             /\ Dominated(Tail(list), Tail(original))
          \/ Dominated(list, Tail(original))

\* C5: with non-negative settlement amounts, every debt of the reconciled
\* list is an input debt (same debtor and creditor, distinct debts for
\* distinct entries, in the input order) with an amount that is not larger;
\* no pair absent from the input appears, after any number of settlements
\* and after the final filter.
C5_ReconcileMonotone == Dominated(debts, computed)

C5_Witness ==
    /\ pc = "shown"
    /\ Len(computed) = 2
    /\ Len(debts) = 1
    /\ \E n \in 1..2 :
           /\ debts[1].debtor = computed[n].debtor
           /\ debts[1].creditor = computed[n].creditor
           /\ debts[1].amount < computed[n].amount
    /\ \E n \in 1..Len(settlements) :
           /\ settlements[n].from_user = computed[1].debtor
           /\ settlements[n].to_user = computed[1].creditor
           /\ settlements[n].amount > computed[1].amount

\* C11: in the emitted list no member is debtor of one debt and creditor
\* of a debt (the same or another); no debt has debtor = creditor.  Holds
\* at the return and at every point of the sweep.
C11_RoleExclusive ==
    \A n, q \in 1..Len(transactions) :
        transactions[n].debtor # transactions[q].creditor

C11_Witness ==
    /\ pc = "done"
    /\ Len(transactions) >= 2
    /\ transactions[1].debtor # transactions[2].debtor

\* C12: no two emitted debts have the same (debtor, creditor) pair.
C12_OneDebtPerPair ==
    \A n, q \in 1..Len(transactions) :
        (/\ transactions[n].debtor = transactions[q].debtor
         /\ transactions[n].creditor = transactions[q].creditor) => n = q

C12_Witness ==
    /\ pc = "done"
    /\ Len(transactions) >= 2
    /\ transactions[1].creditor = transactions[2].creditor

\* the rearrangements of a list
Rearrangements(list) ==
    LET idx == 1..Len(list)
        orders == {f \in [idx -> idx] : \A a, b \in idx : f[a] = f[b] => a = b}
    IN  {[n \in idx |-> list[f[n]]] : f \in orders}

\* C17: every permutation of the expense list gives the same balances and
\* the same list of debts.
C17_ExpenseOrder ==
    pc = "done" =>
        \A perm \in Rearrangements(expenses) :
            /\ CalcBalances(ZeroBalances(members), perm, members) = balances
            /\ CalculateDebts(perm, members) = transactions

C17_Witness ==
    /\ pc = "done"
    /\ Len(expenses) = 2
    /\ transactions # <<>>
    /\ ~expenses[1].settled /\ ~expenses[2].settled
    /\ expenses[1].payer = expenses[2].payer
    /\ expenses[1].amount > expenses[2].amount
    /\ expenses[2].amount > 0
    /\ Len(Involved(expenses[1], members)) # Len(Involved(expenses[2], members))
    /\ Len(Involved(expenses[2], members)) > 0

\* the step of the settlement loop that applies settlement number s + 1
Applies == pc = "apply" /\ s < Len(settlements) /\ s' = s + 1

\* the debts of a list that do not go from X to Y, in order
OtherThan(list, X, Y) ==
    SelectSeq(list, LAMBDA d : ~(d.debtor = X /\ d.creditor = Y))

\* C13: applying a settlement from X to Y changes only a debt from X to Y;
\* the debts from Y to X and between other pairs stay as they are, in
\* number, order and amount.
C13_ExactDirection ==
    [][Applies =>
          LET X == settlements[s + 1].from_user
              Y == settlements[s + 1].to_user
          IN  OtherThan(debts', X, Y) = OtherThan(debts, X, Y)]_vars

C13_Witness ==
    /\ pc = "apply"
    /\ s >= 1
    /\ debts # computed
    /\ settlements[s].from_user # settlements[s].to_user
    /\ \E n \in 1..Len(debts) :
           /\ debts[n].debtor = settlements[s].to_user
           /\ debts[n].creditor = settlements[s].from_user
           /\ debts[n].amount > 0

\* the settlements of a list that match a debt when their turn comes
RECURSIVE Matched(_, _)
Matched(list, setts) ==
    IF setts = <<>> THEN <<>>
    ELSE IF \E n \in 1..Len(list) :
                /\ list[n].debtor = Head(setts).from_user
                /\ list[n].creditor = Head(setts).to_user
         THEN <<Head(setts)>>
              \o Matched(ApplySettlement(list, Head(setts)), Tail(setts))
         ELSE Matched(list, Tail(setts))

\* C14: a settlement that matches no debt of the current list leaves the
\* list unchanged: at every point of the loop and after the final filter
\* the list is the one computed without the unmatched settlements.
C14_UnmatchedNoOp ==
    LET done == SubSeq(settlements, 1, s)
        without == ApplyAll(computed, Matched(computed, done))
    IN  debts = IF pc = "shown" THEN Outstanding(without) ELSE without

C14_Witness ==
    /\ pc = "shown"
    /\ debts # <<>>
    /\ debts # computed
    /\ Len(settlements) = 2
    /\ Len(Matched(computed, settlements)) = 1
    /\ settlements[1].amount > 0 /\ settlements[2].amount > 0
    /\ settlements[1].from_user = settlements[2].from_user
    /\ settlements[1].to_user = settlements[2].to_user

\* C15: every debt of the outstanding list is above 0.01; a debt that a
\* settlement brings to zero or below leaves the list in that step, and no
\* step makes the list longer.
C15_AboveTolerance ==
    /\ [](pc = "shown" => \A n \in 1..Len(debts) : debts[n].amount > Cent)
    /\ [][Applies =>
             LET st == settlements[s + 1]
                 hit == {n \in 1..Len(debts) :
                            /\ debts[n].debtor = st.from_user
                            /\ debts[n].creditor = st.to_user}
             IN  /\ Len(debts') <= Len(debts)
                 /\ \A n \in hit :
                        (/\ \A q \in hit : n <= q
                         /\ debts[n].amount - st.amount <= 0)
                        => debts' = SubSeq(debts, 1, n - 1)
                                    \o SubSeq(debts, n + 1, Len(debts))]_vars
    /\ [][pc = "shown" => debts' = debts]_vars

C15_Witness ==
    /\ pc = "shown"
    /\ Len(computed) = 2
    /\ \A n \in 1..2 : computed[n].amount > Cent
    /\ Len(ApplyAll(computed, settlements)) = 1
    /\ Len(debts) = 1
    /\ \A n \in 1..2 : computed[n].amount > debts[1].amount

\* no two debts of a list have the same debtor and the same creditor
DistinctPairs(list) ==
    \A n, q \in 1..Len(list) :
        (list[n].debtor = list[q].debtor /\ list[n].creditor = list[q].creditor)
        => n = q

\* C18: for debts with distinct pairs (as calculate_debts emits them) and
\* settlements of positive amounts, every rearrangement of the settlements
\* gives the same outstanding list.
C18_SettlementOrder ==
    (/\ pc = "shown"
     /\ DistinctPairs(computed)
     /\ \A n \in 1..Len(settlements) : settlements[n].amount > 0)
    => \A perm \in Rearrangements(settlements) :
           Reconcile(computed, perm) = debts

C18_Witness ==
    /\ pc = "shown"
    /\ DistinctPairs(computed)
    /\ Len(computed) = 2
    /\ Len(settlements) = 2
    /\ settlements[1].amount > 0
    /\ settlements[2].amount > settlements[1].amount
    /\ settlements[1].from_user = settlements[2].from_user
    /\ settlements[1].to_user = settlements[2].to_user
    /\ Len(debts) = 1
    /\ \E n \in 1..2 :
           /\ computed[n].debtor = settlements[1].from_user
           /\ computed[n].creditor = settlements[1].to_user
           /\ computed[n].amount > settlements[2].amount
    /\ debts[1].debtor # settlements[1].from_user
    /\ settlements[1].from_user # settlements[1].to_user

\* C16: when a payment from X to Y of exactly the amount of an outstanding
\* debt from X to Y is recorded, the outstanding list shown next, for the
\* same expenses and members, has no debt from X to Y; when that debt was
\* the only one outstanding the list is empty.
C16_FullPaymentClears ==
    [][(/\ pc = "Settle Expenses"
        /\ pc' = pc
        /\ expenses' = expenses
        /\ members' = members
        /\ Len(settlements') = Len(settlements) + 1
        /\ SubSeq(settlements', 1, Len(settlements)) = settlements
        /\ \E n \in 1..Len(debts) :
               /\ debts[n].debtor = settlements'[Len(settlements')].from_user
               /\ debts[n].creditor = settlements'[Len(settlements')].to_user
               /\ debts[n].amount = settlements'[Len(settlements')].amount)
       => LET X == settlements'[Len(settlements')].from_user
              Y == settlements'[Len(settlements')].to_user
          IN  /\ \A n \in 1..Len(debts') :
                     ~(debts'[n].debtor = X /\ debts'[n].creditor = Y)
              /\ Len(debts) = 1 => debts' = <<>>]_vars

C16_Witness ==
    /\ pc = "Settle Expenses"
    /\ Len(settlements) = 1
    /\ Len(CalculateDebts(expenses, members)) = 2
    /\ \E n \in 1..2 :
           LET d == CalculateDebts(expenses, members)[n]
           IN  /\ d.debtor = settlements[1].from_user
               /\ d.creditor = settlements[1].to_user
               /\ d.amount = settlements[1].amount
    /\ Len(debts) = 1
    /\ debts[1].debtor # settlements[1].from_user

\* C19: evaluating the debts of an event, on the Dashboard or on the Settle
\* page or by opening any other page, leaves the event's expense records,
\* its member list and its recorded settlements as they were.
C19_NoWriteBack ==
    /\ [](\A menu \in Menus :
              /\ Render(menu, Event).members = members
              /\ Render(menu, Event).expenses = expenses
              /\ Render(menu, Event).settlements = settlements)
    /\ [][Navigate => UNCHANGED <<members, expenses, settlements>>]_vars

C19_Witness ==
    /\ pc = "Settle Expenses"
    /\ Len(expenses) = 2
    /\ Len(settlements) = 1
    /\ CalculateDebts(expenses, members) # <<>>
    /\ debts # CalculateDebts(expenses, members)
    /\ \A n \in 1..Len(expenses) : ~expenses[n].settled

\* C20: no two expenses of an event have the same id, whatever expenses were
\* added, edited and deleted.
C20_UniqueIds ==
    \A n, q \in 1..Len(expenses) :
        expenses[n].id = expenses[q].id => n = q

\* C22: every iteration of the sweep advances the debtor index, the creditor
\* index or both and never moves one back; the indexes never pass the ends
\* of the lists, an iteration reads only entries inside the lists, and the
\* loop ends, with one of the two lists exhausted.
C22_SweepTerminates ==
    /\ [][(pc = "sweep" /\ pc' = "sweep")
          => (i' >= i /\ j' >= j /\ i' + j' > i + j)]_vars
    /\ [](pc \in {"sweep", "done"}
          => /\ i \in 0..Len(debtors)
             /\ j \in 0..Len(creditors)
             /\ SweepCond(SweepState)
                => (i + 1 \in DOMAIN debtors /\ j + 1 \in DOMAIN creditors))
    /\ <>(pc = "done" /\ (i = Len(debtors) \/ j = Len(creditors)))

C22_Witness ==
    /\ pc = "done"
    /\ Len(transactions) = 2
    /\ Len(debtors) = 2
    /\ i = 2
    /\ j = 1
    /\ Len(creditors) = 1

\* what expense n contributes to the balance of member m: nothing when it is
\* settled or its participant list is empty, else the amount when m paid,
\* less one share for each time m is listed
Contribution(n, m) ==
    LET e == expenses[n]
        listed == IF e.hasInvolved THEN e.involved ELSE members
    IN  IF e.settled \/ listed = <<>> THEN 0
        ELSE (IF e.payer = m THEN e.amount ELSE 0)
             - Occurrences(listed, m) * (e.amount \div Len(listed))

\* C25: the balance of every member is the sum, over the expenses handled so
\* far (all of them once the balance loop is over), of the amount when the
\* member paid less one share per listing of the member, counting only the
\* unsettled expenses with a non-empty participant list.
C25_BalanceFormula ==
    pc \in {"balances", "sweep", "done"}
    => \A m \in MemberSet :
           balances[m] = SumOver([n \in 1..k |-> Contribution(n, m)], 1..k)

C25_Witness ==
    /\ pc = "done"
    /\ Len(members) = 3
    /\ Len(expenses) = 2
    /\ \A n \in 1..2 :
           /\ ~expenses[n].settled
           /\ expenses[n].amount > 0
           /\ expenses[n].payer = members[1]
    /\ expenses[1].hasInvolved
    /\ Len(expenses[1].involved) = 2
    /\ Occurrences(expenses[1].involved, members[1]) = 1
    /\ ~expenses[2].hasInvolved
    /\ balances[members[1]]
         = expenses[1].amount - expenses[1].amount \div 2
           + expenses[2].amount - expenses[2].amount \div Len(members)

\* C26: when a debtor and a creditor exist a debt is emitted; the first debt
\* pairs a member of the most negative balance with a member of the most
\* positive balance and its amount is the smaller of that debt and that
\* credit; along the emitted list the debtors' balances never fall and the
\* creditors' balances never rise.
C26_LargestFirst ==
    pc \in {"sweep", "done"}
    => LET owing == {m \in MemberSet : balances[m] < -Cent}
           owed == {m \in MemberSet : balances[m] > Cent}
       IN  /\ (pc = "done" /\ owing # {} /\ owed # {})
              => Len(transactions) >= 1
           /\ Len(transactions) >= 1
              => LET first == transactions[1]
                 IN  /\ first.debtor \in owing
                     /\ first.creditor \in owed
                     /\ \A m \in MemberSet :
                            /\ balances[first.debtor] <= balances[m]
                            /\ balances[first.creditor] >= balances[m]
                     /\ first.amount = Min(-balances[first.debtor],
                                           balances[first.creditor])
           /\ \A n, q \in 1..Len(transactions) :
                  n < q
                  => /\ balances[transactions[n].debtor]
                          <= balances[transactions[q].debtor]
                     /\ balances[transactions[n].creditor]
                          >= balances[transactions[q].creditor]

C26_Witness ==
    /\ pc = "done"
    /\ Len(transactions) = 2
    /\ Len(debtors) = 2
    /\ transactions[1].debtor # transactions[2].debtor
    /\ balances[transactions[1].debtor] < balances[transactions[2].debtor]
    /\ transactions[1].debtor = members[3]

\* the total of the emitted debts in which m is the debtor, and in which m
\* is the creditor
TotalOwedBy(m) ==
    SumOver([n \in 1..Len(transactions) |->
                IF transactions[n].debtor = m THEN transactions[n].amount
                ELSE 0], 1..Len(transactions))

TotalOwedTo(m) ==
    SumOver([n \in 1..Len(transactions) |->
                IF transactions[n].creditor = m THEN transactions[n].amount
                ELSE 0], 1..Len(transactions))

\* C29: a member's emitted debts add up to at most the member's deficit, the
\* debts owed to a member to at most the member's surplus, and paying every
\* emitted debt leaves no balance on the other side of zero.
C29_NoOvershoot ==
    pc \in {"sweep", "done"}
    => \A m \in MemberSet :
           /\ TotalOwedBy(m) <= Max(0, -balances[m])
           /\ TotalOwedTo(m) <= Max(0, balances[m])
           /\ balances[m] < 0 => ApplyDebts(balances, transactions)[m] <= 0
           /\ balances[m] > 0 => ApplyDebts(balances, transactions)[m] >= 0
           /\ balances[m] = 0 => ApplyDebts(balances, transactions)[m] = 0

C29_Witness ==
    /\ pc = "done"
    /\ Len(transactions) = 2
    /\ transactions[1].creditor = transactions[2].creditor
    /\ TotalOwedTo(transactions[1].creditor)
         = balances[transactions[1].creditor]
    /\ transactions[1].amount # transactions[2].amount
    /\ TotalOwedBy(transactions[1].debtor)
         = -balances[transactions[1].debtor]

\* the total of the recorded settlements from X to Y
TotalSettled(setts, X, Y) ==
    SumOver([n \in 1..Len(setts) |->
                IF setts[n].from_user = X /\ setts[n].to_user = Y
                THEN setts[n].amount ELSE 0], 1..Len(setts))

\* each debt less everything settled between its pair in its direction,
\* in the order of the debts, keeping what is above the tolerance
NetOutstanding(list, setts) ==
    SelectSeq([n \in 1..Len(list) |->
                  [list[n] EXCEPT !.amount =
                      @ - TotalSettled(setts, list[n].debtor,
                                       list[n].creditor)]],
              LAMBDA d : d.amount > Cent)

\* C28: for debts of distinct pairs and settlements of positive amounts the
\* outstanding list is, in the order of the simplified debts, exactly the
\* debts whose amount less the total settled from debtor to creditor is
\* above 0.01, each with that difference as its amount.
C28_ReferenceResult ==
    (/\ pc = "shown"
     /\ DistinctPairs(computed)
     /\ \A n \in 1..Len(settlements) : settlements[n].amount > 0)
    => debts = NetOutstanding(computed, settlements)

C28_Witness ==
    /\ pc = "shown"
    /\ DistinctPairs(computed)
    /\ Len(computed) = 2
    /\ Len(settlements) = 2
    /\ \A n \in 1..2 :
           /\ settlements[n].amount > 0
           /\ settlements[n].from_user = computed[2].debtor
           /\ settlements[n].to_user = computed[2].creditor
           /\ settlements[n].amount < computed[2].amount - Cent
    /\ computed[2].amount - settlements[1].amount - settlements[2].amount
         <= Cent
    /\ debts = <<computed[1]>>

C24_KnownMembers ==
    \A n \in 1..Len(expenses) :
        /\ expenses[n].payer \in MemberSet
        /\ \A q \in 1..Len(expenses[n].involved) :
               expenses[n].involved[q] \in MemberSet

\* C27: the debts the Dashboard shows for the event are the outstanding
\* debts the Settle page shows for it.
C27_SameDebts == DashboardPage(Event).debts = SettlePage(Event).debts

\* the records a session holds, and the records that are stored
RecordsOf(d) ==
    {d.expenses[n] : n \in 1..Len(d.expenses)}
    \cup {d.settlements[n] : n \in 1..Len(d.settlements)}

\* session n holds one record and recorded it itself, so it loaded the
\* store while it was empty
RecordedOne(n) ==
    LET d == session_data[n]
    IN  /\ d.loaded
        /\ Held(d) = 1
        /\ \A q \in 1..Len(d.expenses) :
               d.expenses[q].payer = SessionUser(n)
        /\ \A q \in 1..Len(d.settlements) :
               d.settlements[q].from_user = SessionUser(n)

\* C23: when two sessions have loaded the same stored data and each has
\* recorded one expense or settlement and saved, both records are stored.
C23_NoLostUpdate ==
    \A a, b \in Sessions :
        (a # b /\ RecordedOne(a) /\ RecordedOne(b))
        => (RecordsOf(session_data[a]) \cup RecordsOf(session_data[b]))
              \subseteq RecordsOf(stored)

\* C30: no two records of the user list have the same username.
C30_UniqueUsernames ==
    \A n, q \in 1..Len(users) :
        users[n].username = users[q].username => n = q

====
